---- MODULE Spec2Model ----
(***************************************************************************)
(* FixedHashTable (src/ex1/fixed_hash_table.py): a fixed-capacity hash     *)
(* table from strings to integers, open addressing with linear probing and *)
(* tombstones, with an intrusive doubly linked recency list.               *)
(*                                                                         *)
(* The object's fields are the variables capacity .. size.  Every method   *)
(* is an operator over a table record t (the object "self") that returns   *)
(* the table after the call together with what the call returned or        *)
(* raised; every public method is one action that applies the operator to  *)
(* the current object.                                                     *)
(***************************************************************************)
EXTENDS Integers, Sequences, FiniteSets, TLC

\* ---------------------------------------------------------------- bounds
MaxCap == 3          \* capacities 1..MaxCap are constructed
MaxVal == 2          \* values 1..MaxVal are inserted
MaxCalls == 3        \* calls started by the concurrent threads
MaxWords == 4        \* tokens given to build_word_counts
MaxId == 3           \* aggregate trade ids 0..MaxId
MaxRest == 2         \* trades in the REST response
MaxConns == 2        \* WebSocket connections opened

\* ------------------------------------------------------------- constants
EMPTY == 0
OCCUPIED == 1
DELETED == 2

\* Python's None, for the optional indices and the optional integer values
\* (indices are >= 0 and the modelled values are >= 1), and for the optional
\* string keys.
None == -1
NoKey == "None"

\* The strings used as keys, the integers used as values.
Keys == {"a", "b", "empty"}
Vals == 1..MaxVal

\* hash(key) is salted per run: any assignment of these values to the keys.
\* The negative value exercises the mask of _idx; modulo the capacities 2, 3
\* and 4 the two values give the start indices 0 and 1, 0 and 1, 0 and 3.
HashVals == {0, -1}

VARIABLES
    capacity, keys, vals, state, prev, next, head, tail, size,  \* __slots__
    hash,        \* this run's hash(key) of every key
    lastCall,    \* the last public call: method, arguments, exception raised
    before,      \* the recency order (keys, head first) before the last call
    absMap,      \* abstract map: the value of each key's last insert, or None
    absOrder,    \* abstract list: live keys, most recent insert first
    removed      \* keys whose last successful mutating call was remove

\* Two threads calling insert and remove on the one object without a lock.
VARIABLES
    pc,          \* per thread: "idle", or "write" between _probe and the writes
    pend,        \* per thread: the call in flight and what its _probe returned
    overlapped,  \* some call started while another one was in flight
    calls        \* the number of calls started

concVars == <<pc, pend, overlapped, calls>>

\* One call whose _probe runs one loop iteration per step.
VARIABLES
    probe_call,             \* the call in progress: method, key, value
    probe_start,            \* _probe's local start
    probe_i,                \* _probe's local i
    probe_first_tombstone,  \* _probe's local first_tombstone
    probe_ret,              \* what _probe returned, once it has
    probe_seen,             \* the slots examined so far
    probe_again             \* some slot was examined a second time

probeVars == <<probe_call, probe_start, probe_i, probe_first_tombstone,
               probe_ret, probe_seen, probe_again>>

\* build_word_counts (src/ex1/run_hashtable_gutenberg.py) on its own table.
VARIABLES
    words,       \* the tokens the iterator yields
    wi,          \* how many of them the for loop has taken
    wpc,         \* where the loop is: "get", "insert", "done", "raised", "off"
    wc           \* c, the count get returned, or None after KeyError

wordVars == <<words, wi, wpc, wc>>

\* AggTradeStreamer (src/ex2/aggtrade_stream.py).
VARIABLES
    last_seen_a, \* self.last_seen_a
    printed,     \* the trades handed to _print_trade, in order, with their origin
    rpc,         \* where run() is
    conns,       \* the number of WebSocket connections opened so far
    dropped      \* some stream event was skipped as a duplicate

streamVars == <<last_seen_a, printed, rpc, conns, dropped>>

tableVars == <<capacity, keys, vals, state, prev, next, head, tail, size, hash>>
ghostVars == <<lastCall, before, absMap, absOrder, removed>>

vars == <<tableVars, ghostVars, concVars, probeVars, wordVars, streamVars>>

\* The object as one record.
self == [capacity |-> capacity, keys |-> keys, vals |-> vals, state |-> state,
         prev |-> prev, next |-> next, head |-> head, tail |-> tail,
         size |-> size]

\* ------------------------------------------------------------ exceptions
NoExc == <<>>
KeyError(arg) == <<"KeyError", arg>>
RuntimeError(arg) == <<"RuntimeError", arg>>

\* ------------------------------------------------------------- __init__
new_table(cap) ==
    [capacity |-> cap,
     keys  |-> [i \in 0..(cap - 1) |-> NoKey],
     vals  |-> [i \in 0..(cap - 1) |-> None],
     state |-> [i \in 0..(cap - 1) |-> EMPTY],
     prev  |-> [i \in 0..(cap - 1) |-> None],
     next  |-> [i \in 0..(cap - 1) |-> None],
     head  |-> None,
     tail  |-> None,
     size  |-> 0]

\* ----------------------------------------------------------------- _idx
\* h & 0x7FFFFFFF for a 32-bit h: h itself when h >= 0, h + 2^31 otherwise.
Mask31(h) == IF h >= 0 THEN h ELSE (h + 2147483647) + 1

_idx(t, key) == Mask31(hash[key]) % t.capacity

\* --------------------------------------------------------------- _probe
\* Mutant: a tombstone ends the search like an EMPTY slot.
RECURSIVE _probe_loop_tombstone_stops(_, _, _, _, _)
_probe_loop_tombstone_stops(t, key, start, i, first_tombstone) ==
    LET st == t.state[i] IN
    IF st = EMPTY \/ st = DELETED
    THEN [found_idx |-> None, insert_idx |-> i]
    ELSE IF t.keys[i] = key
    THEN [found_idx |-> i, insert_idx |-> None]
    ELSE LET i1 == i + 1
             i2 == IF i1 = t.capacity THEN 0 ELSE i1
         IN  IF i2 = start
             THEN [found_idx |-> None, insert_idx |-> None]
             ELSE _probe_loop_tombstone_stops(t, key, start, i2, None)

\* Mutant: a full cycle reports saturation even when a tombstone was seen.
RECURSIVE _probe_loop_cycle_none(_, _, _, _, _)
_probe_loop_cycle_none(t, key, start, i, first_tombstone) ==
    LET st == t.state[i] IN
    IF st = EMPTY
    THEN [found_idx |-> None,
          insert_idx |-> IF first_tombstone # None THEN first_tombstone ELSE i]
    ELSE IF st = OCCUPIED /\ t.keys[i] = key
    THEN [found_idx |-> i, insert_idx |-> None]
    ELSE LET ft == IF st # OCCUPIED /\ first_tombstone = None
                   THEN i ELSE first_tombstone
             i1 == i + 1
             i2 == IF i1 = t.capacity THEN 0 ELSE i1
         IN  IF i2 = start
             THEN [found_idx |-> None, insert_idx |-> None]
             ELSE _probe_loop_cycle_none(t, key, start, i2, ft)

\* Mutant: the first EMPTY slot is returned even when a tombstone was seen.
RECURSIVE _probe_loop_prefers_empty(_, _, _, _, _)
_probe_loop_prefers_empty(t, key, start, i, first_tombstone) ==
    LET st == t.state[i] IN
    IF st = EMPTY
    THEN [found_idx |-> None, insert_idx |-> i]
    ELSE IF st = OCCUPIED /\ t.keys[i] = key
    THEN [found_idx |-> i, insert_idx |-> None]
    ELSE LET ft == IF st # OCCUPIED /\ first_tombstone = None
                   THEN i ELSE first_tombstone
             i1 == i + 1
             i2 == IF i1 = t.capacity THEN 0 ELSE i1
         IN  IF i2 = start
             THEN [found_idx |-> None, insert_idx |-> ft]
             ELSE _probe_loop_prefers_empty(t, key, start, i2, ft)

\* One iteration of the while loop at index i, then the rest of the loop.
RECURSIVE _probe_loop(_, _, _, _, _)
_probe_loop(t, key, start, i, first_tombstone) ==
    LET st == t.state[i] IN
    IF st = EMPTY
    THEN [found_idx |-> None,
          insert_idx |-> IF first_tombstone # None THEN first_tombstone ELSE i]
    ELSE IF st = OCCUPIED /\ t.keys[i] = key
    THEN [found_idx |-> i, insert_idx |-> None]
    ELSE LET ft == IF st # OCCUPIED /\ first_tombstone = None
                   THEN i ELSE first_tombstone
             i1 == i + 1
             i2 == IF i1 = t.capacity THEN 0 ELSE i1
         IN  IF i2 = start
             THEN [found_idx |-> None, insert_idx |-> ft]
             ELSE _probe_loop(t, key, start, i2, ft)

_probe(t, key) ==
    LET start == _idx(t, key) IN _probe_loop(t, key, start, start, None)

\* ------------------------------------------------------ recency helpers
\* Mutant: the old head's prev is not set to the new head.
_link_to_head_no_back_link(t, i) ==
    LET t1 == [t EXCEPT !.prev[i] = None, !.next[i] = t.head]
        t2 == [t1 EXCEPT !.head = i]
    IN  IF t2.tail = None THEN [t2 EXCEPT !.tail = i] ELSE t2

_link_to_head(t, i) ==
    LET t1 == [t EXCEPT !.prev[i] = None]
        t2 == [t1 EXCEPT !.next[i] = t1.head]
        t3 == IF t2.head # None THEN [t2 EXCEPT !.prev[t2.head] = i] ELSE t2
        t4 == [t3 EXCEPT !.head = i]
    IN  IF t4.tail = None THEN [t4 EXCEPT !.tail = i] ELSE t4

\* Mutant: the predecessor's next is not redirected past i.
_unlink_no_next(t, i) ==
    LET p == t.prev[i]
        n == t.next[i]
        t1 == IF p # None THEN t ELSE [t EXCEPT !.head = n]
        t2 == IF n # None THEN [t1 EXCEPT !.prev[n] = p] ELSE [t1 EXCEPT !.tail = p]
    IN  [t2 EXCEPT !.prev[i] = None, !.next[i] = None]

\* Mutant: the successor's prev is not redirected past i.
_unlink_no_prev(t, i) ==
    LET p == t.prev[i]
        n == t.next[i]
        t1 == IF p # None THEN [t EXCEPT !.next[p] = n] ELSE [t EXCEPT !.head = n]
        t2 == IF n # None THEN t1 ELSE [t1 EXCEPT !.tail = p]
    IN  [t2 EXCEPT !.prev[i] = None, !.next[i] = None]

\* Mutant: unlinking the last node does not move tail.
_unlink_no_tail(t, i) ==
    LET p == t.prev[i]
        n == t.next[i]
        t1 == IF p # None THEN [t EXCEPT !.next[p] = n] ELSE [t EXCEPT !.head = n]
        t2 == IF n # None THEN [t1 EXCEPT !.prev[n] = p] ELSE t1
    IN  [t2 EXCEPT !.prev[i] = None, !.next[i] = None]

_unlink(t, i) ==
    LET p == t.prev[i]
        n == t.next[i]
        t1 == IF p # None THEN [t EXCEPT !.next[p] = n] ELSE [t EXCEPT !.head = n]
        t2 == IF n # None THEN [t1 EXCEPT !.prev[n] = p] ELSE [t1 EXCEPT !.tail = p]
    IN  [t2 EXCEPT !.prev[i] = None, !.next[i] = None]

\* Mutant: an existing node is left where it is.
_move_to_head_stays(t, i) == t

_move_to_head(t, i) ==
    IF i = t.head THEN t ELSE _link_to_head(_unlink(t, i), i)

\* ----------------------------------------------------------- public API
\* Each returns [t: the table after the call, raised: the exception or
\* NoExc, ret: the value returned].
\* Mutant: size is incremented before the table is found to be full.
insert_counts_first(t, key, value) ==
    LET pr == _probe(t, key) IN
    IF pr.found_idx # None
    THEN [t |-> _move_to_head([t EXCEPT !.vals[pr.found_idx] = value],
                              pr.found_idx),
          raised |-> NoExc, ret |-> None]
    ELSE IF pr.insert_idx = None
    THEN [t |-> [t EXCEPT !.size = t.size + 1],
          raised |-> RuntimeError("Hash table is full"), ret |-> None]
    ELSE LET ix == pr.insert_idx
             t1 == [t EXCEPT !.keys[ix] = key, !.vals[ix] = value,
                             !.state[ix] = OCCUPIED]
             t2 == _link_to_head(t1, ix)
         IN  [t |-> [t2 EXCEPT !.size = t.size + 1],
              raised |-> NoExc, ret |-> None]

insert(t, key, value) ==
    LET pr == _probe(t, key) IN
    IF pr.found_idx # None
    THEN [t |-> _move_to_head([t EXCEPT !.vals[pr.found_idx] = value],
                              pr.found_idx),
          raised |-> NoExc, ret |-> None]
    ELSE IF pr.insert_idx = None
    THEN [t |-> t, raised |-> RuntimeError("Hash table is full"), ret |-> None]
    ELSE LET ix == pr.insert_idx
             t1 == [t EXCEPT !.keys[ix] = key]
             t2 == [t1 EXCEPT !.vals[ix] = value]
             t3 == [t2 EXCEPT !.state[ix] = OCCUPIED]
             t4 == _link_to_head(t3, ix)
         IN  [t |-> [t4 EXCEPT !.size = t4.size + 1],
              raised |-> NoExc, ret |-> None]

\* Mutant: a successful lookup counts as a touch.
get_touches(t, key) ==
    LET pr == _probe(t, key) IN
    IF pr.found_idx = None
    THEN [t |-> t, raised |-> KeyError(key), ret |-> None]
    ELSE [t |-> _move_to_head(t, pr.found_idx), raised |-> NoExc,
          ret |-> t.vals[pr.found_idx]]

get(t, key) ==
    LET pr == _probe(t, key) IN
    IF pr.found_idx = None
    THEN [t |-> t, raised |-> KeyError(key), ret |-> None]
    ELSE [t |-> t, raised |-> NoExc, ret |-> t.vals[pr.found_idx]]

\* Mutant: the slot is unlinked but keeps its key, value and OCCUPIED state.
remove_keeps_slot(t, key) ==
    LET pr == _probe(t, key) IN
    IF pr.found_idx = None
    THEN [t |-> t, raised |-> KeyError(key), ret |-> None]
    ELSE LET t1 == _unlink(t, pr.found_idx)
         IN  [t |-> [t1 EXCEPT !.size = t1.size - 1],
              raised |-> NoExc, ret |-> None]

\* Mutant: the slot is marked EMPTY instead of DELETED.
remove_writes_empty(t, key) ==
    LET pr == _probe(t, key) IN
    IF pr.found_idx = None
    THEN [t |-> t, raised |-> KeyError(key), ret |-> None]
    ELSE LET ix == pr.found_idx
             t1 == _unlink(t, ix)
         IN  [t |-> [t1 EXCEPT !.keys[ix] = NoKey, !.vals[ix] = None,
                               !.state[ix] = EMPTY, !.size = t1.size - 1],
              raised |-> NoExc, ret |-> None]

\* Mutant: size is not decremented.
remove_keeps_size(t, key) ==
    LET pr == _probe(t, key) IN
    IF pr.found_idx = None
    THEN [t |-> t, raised |-> KeyError(key), ret |-> None]
    ELSE LET ix == pr.found_idx
             t1 == _unlink(t, ix)
         IN  [t |-> [t1 EXCEPT !.keys[ix] = NoKey, !.vals[ix] = None,
                               !.state[ix] = DELETED],
              raised |-> NoExc, ret |-> None]

remove(t, key) ==
    LET pr == _probe(t, key) IN
    IF pr.found_idx = None
    THEN [t |-> t, raised |-> KeyError(key), ret |-> None]
    ELSE LET ix == pr.found_idx
             t1 == _unlink(t, ix)
             t2 == [t1 EXCEPT !.keys[ix] = NoKey]
             t3 == [t2 EXCEPT !.vals[ix] = None]
             t4 == [t3 EXCEPT !.state[ix] = DELETED]
         IN  [t |-> [t4 EXCEPT !.size = t4.size - 1],
              raised |-> NoExc, ret |-> None]

get_last(t) ==
    IF t.head = None
    THEN [t |-> t, raised |-> KeyError("empty"), ret |-> <<NoKey, None>>]
    ELSE [t |-> t, raised |-> NoExc, ret |-> <<t.keys[t.head], t.vals[t.head]>>]

get_first(t) ==
    IF t.tail = None
    THEN [t |-> t, raised |-> KeyError("empty"), ret |-> <<NoKey, None>>]
    ELSE [t |-> t, raised |-> NoExc, ret |-> <<t.keys[t.tail], t.vals[t.tail]>>]

\* items(): the pairs yielded by a complete traversal, for i in range(capacity).
RECURSIVE items_from(_, _)
items_from(t, i) ==
    IF i = t.capacity THEN <<>>
    ELSE (IF t.state[i] = OCCUPIED THEN << <<t.keys[i], t.vals[i]>> >> ELSE <<>>)
         \o items_from(t, i + 1)

items(t) == [t |-> t, raised |-> NoExc, ret |-> items_from(t, 0)]

\* ------------------------------------------------ the recency list, read
\* The slots met following next from head, at most fuel of them (a
\* well-formed list has at most capacity nodes).
RECURSIVE walk_slots(_, _, _)
walk_slots(t, i, fuel) ==
    IF i = None \/ fuel = 0 THEN <<>>
    ELSE <<i>> \o walk_slots(t, t.next[i], fuel - 1)

RecencySlots(t) == walk_slots(t, t.head, t.capacity + 1)

\* The keys met following next from head, at most fuel of them.
RECURSIVE walk_keys(_, _, _)
walk_keys(t, i, fuel) ==
    IF i = None \/ fuel = 0 THEN <<>>
    ELSE <<t.keys[i]>> \o walk_keys(t, t.next[i], fuel - 1)

RecencyKeys(t) == walk_keys(t, t.head, t.capacity + 1)

\* s without the element x.
RECURSIVE Without(_, _)
Without(s, x) ==
    IF s = <<>> THEN <<>>
    ELSE (IF Head(s) = x THEN <<>> ELSE <<Head(s)>>) \o Without(Tail(s), x)

\* ---------------------------------------------------------------- state
TypeOK ==
    /\ capacity \in 1..MaxCap
    /\ size \in Int
    /\ head \in (0..(capacity - 1)) \cup {None}
    /\ tail \in (0..(capacity - 1)) \cup {None}
    /\ keys \in [0..(capacity - 1) -> Keys \cup {NoKey}]
    /\ vals \in [0..(capacity - 1) -> Vals \cup {None}]
    /\ state \in [0..(capacity - 1) -> {EMPTY, OCCUPIED, DELETED}]
    /\ prev \in [0..(capacity - 1) -> (0..(capacity - 1)) \cup {None}]
    /\ next \in [0..(capacity - 1) -> (0..(capacity - 1)) \cup {None}]
    /\ hash \in [Keys -> HashVals]

\* The object's fields become those of t.
Assign(t) ==
    /\ keys' = t.keys
    /\ vals' = t.vals
    /\ state' = t.state
    /\ prev' = t.prev
    /\ next' = t.next
    /\ head' = t.head
    /\ tail' = t.tail
    /\ size' = t.size
    /\ UNCHANGED <<capacity, hash>>

\* The same, in a call made by the single caller of Spec.
Store(t) ==
    /\ Assign(t)
    /\ UNCHANGED <<concVars, probeVars, wordVars, streamVars>>

NoProbe == [op |-> "none", key |-> NoKey, val |-> None]
NoReturn == <<>>

Threads == {1, 2}
NoCall == [op |-> "none", key |-> NoKey, val |-> None,
           pr |-> [found_idx |-> None, insert_idx |-> None]]

Call(op, key, value, raised) ==
    [op |-> op, key |-> key, val |-> value, raised |-> raised]

\* A table just constructed, with this run's hash.
TableInit ==
    /\ capacity \in 1..MaxCap
    /\ hash \in [Keys -> HashVals]
    /\ keys = new_table(capacity).keys
    /\ vals = new_table(capacity).vals
    /\ state = new_table(capacity).state
    /\ prev = new_table(capacity).prev
    /\ next = new_table(capacity).next
    /\ head = new_table(capacity).head
    /\ tail = new_table(capacity).tail
    /\ size = new_table(capacity).size
    /\ lastCall = Call("__init__", NoKey, None, NoExc)
    /\ before = <<>>
    /\ absMap = [k \in Keys |-> None]
    /\ absOrder = <<>>
    /\ removed = {}

\* No thread is in a call.
ConcIdle ==
    /\ pc = [th \in Threads |-> "idle"]
    /\ pend = [th \in Threads |-> NoCall]
    /\ overlapped = FALSE
    /\ calls = 0

\* No step-by-step call is in progress.
ProbeIdle ==
    /\ probe_call = NoProbe
    /\ probe_start = None
    /\ probe_i = None
    /\ probe_first_tombstone = None
    /\ probe_ret = NoReturn
    /\ probe_seen = {}
    /\ probe_again = FALSE

\* build_word_counts is not running.
WordsOff ==
    /\ words = <<>>
    /\ wi = 0
    /\ wpc = "off"
    /\ wc = None

\* No AggTradeStreamer is running; last_seen_a as __init__ sets it.
StreamOff ==
    /\ last_seen_a = -1
    /\ printed = <<>>
    /\ rpc = "off"
    /\ conns = 0
    /\ dropped = FALSE

Init ==
    /\ TableInit
    /\ ConcIdle
    /\ ProbeIdle
    /\ WordsOff
    /\ StreamOff

Insert(key, value) ==
    \E r \in {insert(self, key, value)} :
    /\ Store(r.t)
    /\ lastCall' = Call("insert", key, value, r.raised)
    /\ before' = RecencyKeys(self)
    /\ IF r.raised = NoExc
       THEN /\ absMap' = [absMap EXCEPT ![key] = value]
            /\ absOrder' = <<key>> \o Without(absOrder, key)
            /\ removed' = removed \ {key}
       ELSE UNCHANGED <<absMap, absOrder, removed>>

Get(key) ==
    \E r \in {get(self, key)} :
    /\ Store(r.t)
    /\ lastCall' = Call("get", key, None, r.raised)
    /\ before' = RecencyKeys(self)
    /\ UNCHANGED <<absMap, absOrder, removed>>

Remove(key) ==
    \E r \in {remove(self, key)} :
    /\ Store(r.t)
    /\ lastCall' = Call("remove", key, None, r.raised)
    /\ before' = RecencyKeys(self)
    /\ IF r.raised = NoExc
       THEN /\ absMap' = [absMap EXCEPT ![key] = None]
            /\ absOrder' = Without(absOrder, key)
            /\ removed' = removed \cup {key}
       ELSE UNCHANGED <<absMap, absOrder, removed>>

GetLast ==
    \E r \in {get_last(self)} :
    /\ Store(r.t)
    /\ lastCall' = Call("get_last", NoKey, None, r.raised)
    /\ before' = RecencyKeys(self)
    /\ UNCHANGED <<absMap, absOrder, removed>>

GetFirst ==
    \E r \in {get_first(self)} :
    /\ Store(r.t)
    /\ lastCall' = Call("get_first", NoKey, None, r.raised)
    /\ before' = RecencyKeys(self)
    /\ UNCHANGED <<absMap, absOrder, removed>>

Items ==
    \E r \in {items(self)} :
    /\ Store(r.t)
    /\ lastCall' = Call("items", NoKey, None, r.raised)
    /\ before' = RecencyKeys(self)
    /\ UNCHANGED <<absMap, absOrder, removed>>

Next ==
    \/ \E key \in Keys, value \in Vals : Insert(key, value)
    \/ \E key \in Keys : Get(key)
    \/ \E key \in Keys : Remove(key)
    \/ GetLast
    \/ GetFirst
    \/ Items

Spec == Init /\ [][Next]_vars

\* ----------------------------------------- two threads, no mutual exclusion
\* insert from the statement after the _probe call on, with the probe result
\* pr the thread holds.
insert_after_probe(t, key, value, pr) ==
    IF pr.found_idx # None
    THEN [t |-> _move_to_head([t EXCEPT !.vals[pr.found_idx] = value],
                              pr.found_idx),
          raised |-> NoExc, ret |-> None]
    ELSE IF pr.insert_idx = None
    THEN [t |-> t, raised |-> RuntimeError("Hash table is full"), ret |-> None]
    ELSE LET ix == pr.insert_idx
             t1 == [t EXCEPT !.keys[ix] = key]
             t2 == [t1 EXCEPT !.vals[ix] = value]
             t3 == [t2 EXCEPT !.state[ix] = OCCUPIED]
             t4 == _link_to_head(t3, ix)
         IN  [t |-> [t4 EXCEPT !.size = t4.size + 1],
              raised |-> NoExc, ret |-> None]

\* remove from the statement after the _probe call on.
remove_after_probe(t, key, pr) ==
    IF pr.found_idx = None
    THEN [t |-> t, raised |-> KeyError(key), ret |-> None]
    ELSE LET ix == pr.found_idx
             t1 == _unlink(t, ix)
             t2 == [t1 EXCEPT !.keys[ix] = NoKey]
             t3 == [t2 EXCEPT !.vals[ix] = None]
             t4 == [t3 EXCEPT !.state[ix] = DELETED]
         IN  [t |-> [t4 EXCEPT !.size = t4.size - 1],
              raised |-> NoExc, ret |-> None]

\* A thread enters insert or remove and runs _probe.
Begin(th, op, key, value) ==
    /\ pc[th] = "idle"
    /\ calls < MaxCalls
    /\ pc' = [pc EXCEPT ![th] = "write"]
    /\ pend' = [pend EXCEPT ![th] = [op |-> op, key |-> key, val |-> value,
                                     pr |-> _probe(self, key)]]
    /\ overlapped' = (overlapped \/ \E o \in Threads \ {th} : pc[o] = "write")
    /\ calls' = calls + 1
    /\ UNCHANGED <<tableVars, ghostVars, probeVars, wordVars, streamVars>>

BeginInsert(th, key, value) == Begin(th, "insert", key, value)

BeginRemove(th, key) == Begin(th, "remove", key, None)

\* The thread runs the rest of insert on the table as it is now.
FinishInsert(th) ==
    /\ pc[th] = "write"
    /\ pend[th].op = "insert"
    /\ \E r \in {insert_after_probe(self, pend[th].key, pend[th].val,
                                     pend[th].pr)} : Assign(r.t)
    /\ pc' = [pc EXCEPT ![th] = "idle"]
    /\ pend' = [pend EXCEPT ![th] = NoCall]
    /\ UNCHANGED <<overlapped, calls, ghostVars, probeVars, wordVars,
                   streamVars>>

\* The thread runs the rest of remove on the table as it is now.
FinishRemove(th) ==
    /\ pc[th] = "write"
    /\ pend[th].op = "remove"
    /\ \E r \in {remove_after_probe(self, pend[th].key, pend[th].pr)} :
           Assign(r.t)
    /\ pc' = [pc EXCEPT ![th] = "idle"]
    /\ pend' = [pend EXCEPT ![th] = NoCall]
    /\ UNCHANGED <<overlapped, calls, ghostVars, probeVars, wordVars,
                   streamVars>>

ConcNext ==
    \/ \E th \in Threads, key \in Keys, value \in Vals :
           BeginInsert(th, key, value)
    \/ \E th \in Threads, key \in Keys : BeginRemove(th, key)
    \/ \E th \in Threads : FinishInsert(th)
    \/ \E th \in Threads : FinishRemove(th)

SpecConc == Init /\ [][ConcNext]_vars

\* ------------------------------------------------ _probe, step by step
\* Mutant: the loop does not compare the advanced index with start.
_probe_iteration_no_cycle_check(t, key, start, i, first_tombstone) ==
    LET st == t.state[i]
        ft == IF st = DELETED /\ first_tombstone = None
              THEN i ELSE first_tombstone
        i1 == i + 1
        i2 == IF i1 = t.capacity THEN 0 ELSE i1
    IN  IF st = EMPTY
        THEN [done |-> TRUE, i |-> i, first_tombstone |-> first_tombstone,
              ret |-> [found_idx |-> None,
                       insert_idx |-> IF first_tombstone # None
                                      THEN first_tombstone ELSE i]]
        ELSE IF st = OCCUPIED /\ t.keys[i] = key
        THEN [done |-> TRUE, i |-> i, first_tombstone |-> first_tombstone,
              ret |-> [found_idx |-> i, insert_idx |-> None]]
        ELSE [done |-> FALSE, i |-> i2, first_tombstone |-> ft,
              ret |-> [found_idx |-> None, insert_idx |-> None]]

\* One pass through the body of `while True`: either a return (done, with the
\* pair returned) or the locals i and first_tombstone for the next pass.
_probe_iteration(t, key, start, i, first_tombstone) ==
    LET st == t.state[i]
        ft == IF st = DELETED /\ first_tombstone = None
              THEN i ELSE first_tombstone
        i1 == i + 1
        i2 == IF i1 = t.capacity THEN 0 ELSE i1
    IN  IF st = EMPTY
        THEN [done |-> TRUE, i |-> i, first_tombstone |-> first_tombstone,
              ret |-> [found_idx |-> None,
                       insert_idx |-> IF first_tombstone # None
                                      THEN first_tombstone ELSE i]]
        ELSE IF st = OCCUPIED /\ t.keys[i] = key
        THEN [done |-> TRUE, i |-> i, first_tombstone |-> first_tombstone,
              ret |-> [found_idx |-> i, insert_idx |-> None]]
        ELSE IF i2 = start
        THEN [done |-> TRUE, i |-> i2, first_tombstone |-> ft,
              ret |-> [found_idx |-> None, insert_idx |-> ft]]
        ELSE [done |-> FALSE, i |-> i2, first_tombstone |-> ft,
              ret |-> [found_idx |-> None, insert_idx |-> None]]

\* get from the statement after the _probe call on.
get_after_probe(t, key, pr) ==
    IF pr.found_idx = None
    THEN [t |-> t, raised |-> KeyError(key), ret |-> None]
    ELSE [t |-> t, raised |-> NoExc, ret |-> t.vals[pr.found_idx]]

\* insert, get or remove is called: _probe sets its locals.
ProbeEnter(op, key, value) ==
    /\ probe_call = NoProbe
    /\ probe_call' = [op |-> op, key |-> key, val |-> value]
    /\ probe_start' = _idx(self, key)
    /\ probe_i' = _idx(self, key)
    /\ probe_first_tombstone' = None
    /\ probe_ret' = NoReturn
    /\ probe_seen' = {}
    /\ probe_again' = FALSE
    /\ UNCHANGED <<tableVars, ghostVars, concVars, wordVars, streamVars>>

\* One iteration of the while loop.
ProbeIterate ==
    /\ probe_call # NoProbe
    /\ probe_ret = NoReturn
    /\ \E r \in {_probe_iteration(self, probe_call.key, probe_start, probe_i,
                                   probe_first_tombstone)} :
           /\ probe_i' = r.i
           /\ probe_first_tombstone' = r.first_tombstone
           /\ probe_ret' = IF r.done THEN r.ret ELSE NoReturn
    /\ probe_seen' = probe_seen \cup {probe_i}
    /\ probe_again' = (probe_again \/ probe_i \in probe_seen)
    /\ UNCHANGED <<probe_call, probe_start>>
    /\ UNCHANGED <<tableVars, ghostVars, concVars, wordVars, streamVars>>

\* _probe has returned: the caller runs to its end, and the locals are gone.
ProbeReturn ==
    /\ probe_call # NoProbe
    /\ probe_ret # NoReturn
    /\ \E r \in {CASE probe_call.op = "insert" ->
                        insert_after_probe(self, probe_call.key,
                                           probe_call.val, probe_ret)
                    [] probe_call.op = "remove" ->
                        remove_after_probe(self, probe_call.key, probe_ret)
                    [] OTHER ->
                        get_after_probe(self, probe_call.key, probe_ret)} :
           Assign(r.t)
    /\ probe_call' = NoProbe
    /\ probe_start' = None
    /\ probe_i' = None
    /\ probe_first_tombstone' = None
    /\ probe_ret' = NoReturn
    /\ probe_seen' = {}
    /\ probe_again' = FALSE
    /\ UNCHANGED <<ghostVars, concVars, wordVars, streamVars>>

\* The value inserted plays no part in _probe: one value is enough here.
ProbeVals == {1}

ProbeNext ==
    \/ \E key \in Keys, value \in ProbeVals : ProbeEnter("insert", key, value)
    \/ \E key \in Keys : ProbeEnter("get", key, None)
    \/ \E key \in Keys : ProbeEnter("remove", key, None)
    \/ ProbeIterate
    \/ ProbeReturn

\* The caller is a sequential program: it keeps executing its next statement.
SpecProbe ==
    /\ Init
    /\ [][ProbeNext]_vars
    /\ WF_vars(ProbeIterate)
    /\ WF_vars(ProbeReturn)

\* ----------------------------------------------------- build_word_counts
\* The sequences over S of length at most n.
SeqsUpTo(S, n) == UNION {[1..m -> S] : m \in 0..n}

\* Mutant: an existing word is stored with the count it had.
next_count_no_increment(c) == IF c # None THEN c ELSE 1

\* The value inserted for a word: c + 1 after get returned c, 1 after
\* KeyError.
next_count(c) == IF c # None THEN c + 1 ELSE 1

WordsInit ==
    /\ TableInit
    /\ ConcIdle
    /\ ProbeIdle
    /\ StreamOff
    /\ words \in SeqsUpTo(Keys, MaxWords)
    /\ wi = 0
    /\ wpc = "for"
    /\ wc = None

\* for w in words: try: c = ht.get(w)
WordGet ==
    /\ wpc = "for"
    /\ wi < Len(words)
    /\ \E r \in {get(self, words[wi + 1])} :
           /\ Assign(r.t)
           /\ wc' = IF r.raised = NoExc THEN r.ret ELSE None
    /\ wi' = wi + 1
    /\ wpc' = "insert"
    /\ UNCHANGED <<words, ghostVars, concVars, probeVars, streamVars>>

\* ht.insert(w, c + 1), or ht.insert(w, 1) in the KeyError handler; an
\* exception of insert that is no KeyError leaves build_word_counts.
WordInsert ==
    /\ wpc = "insert"
    /\ \E r \in {insert(self, words[wi], next_count(wc))} :
           /\ Assign(r.t)
           /\ wpc' = IF r.raised = NoExc THEN "for" ELSE "raised"
    /\ wc' = None
    /\ UNCHANGED <<words, wi, ghostVars, concVars, probeVars, streamVars>>

\* The iterator is exhausted: return ht.
WordReturn ==
    /\ wpc = "for"
    /\ wi = Len(words)
    /\ wpc' = "done"
    /\ UNCHANGED <<words, wi, wc, tableVars, ghostVars, concVars, probeVars,
                   streamVars>>

WordsNext ==
    \/ WordGet
    \/ WordInsert
    \/ WordReturn

SpecWords == WordsInit /\ [][WordsNext]_vars

\* ------------------------------------------------------ AggTradeStreamer
Ids == 0..MaxId

\* initialize_from_rest's for loop: last_seen_a after the trades (their ids).
RECURSIVE rest_last_seen(_, _)
rest_last_seen(last, trades) ==
    IF trades = <<>> THEN last
    ELSE rest_last_seen(IF Head(trades) > last THEN Head(trades) ELSE last,
                        Tail(trades))

\* Mutant: only an event older than the last one seen is skipped.
stream_event_keeps_equal(last, a) ==
    IF a < last
    THEN [emit |-> FALSE, last_seen_a |-> last]
    ELSE [emit |-> TRUE, last_seen_a |-> a]

\* stream's handling of one event with aggregate trade id a: skipped when
\* a <= last_seen_a, else printed and remembered.
stream_event(last, a) ==
    IF a <= last
    THEN [emit |-> FALSE, last_seen_a |-> last]
    ELSE [emit |-> TRUE, last_seen_a |-> a]

\* The table plays no part here: one fixed empty table.
StreamInit ==
    /\ TableInit
    /\ capacity = 1
    /\ hash = [k \in Keys |-> 0]
    /\ ConcIdle
    /\ ProbeIdle
    /\ WordsOff
    /\ last_seen_a = -1
    /\ printed = <<>>
    /\ rpc = "rest"
    /\ conns = 0
    /\ dropped = FALSE

NotStream == <<tableVars, ghostVars, concVars, probeVars, wordVars>>

\* initialize_from_rest got the response: every trade is printed, the highest
\* id is remembered; run() enters the reconnect loop and calls stream().
RestResponse(trades) ==
    /\ rpc = "rest"
    /\ printed' = printed \o [n \in 1..Len(trades) |->
                                 [src |-> "rest", a |-> trades[n]]]
    /\ last_seen_a' = rest_last_seen(last_seen_a, trades)
    /\ rpc' = "connecting"
    /\ UNCHANGED <<conns, dropped, NotStream>>

\* The request fails (raise_for_status, timeout): the exception leaves run().
RestFails ==
    /\ rpc = "rest"
    /\ rpc' = "failed"
    /\ UNCHANGED <<last_seen_a, printed, conns, dropped, NotStream>>

\* websockets.connect succeeds.
Connect ==
    /\ rpc = "connecting"
    /\ conns < MaxConns
    /\ conns' = conns + 1
    /\ rpc' = "receiving"
    /\ UNCHANGED <<last_seen_a, printed, dropped, NotStream>>

\* websockets.connect raises: run() reports it and sleeps.
ConnectFails ==
    /\ rpc = "connecting"
    /\ rpc' = "backoff"
    /\ UNCHANGED <<last_seen_a, printed, conns, dropped, NotStream>>

\* One message of the stream, with any id (the server may replay).
Receive(a) ==
    /\ rpc = "receiving"
    /\ \E r \in {stream_event(last_seen_a, a)} :
           /\ last_seen_a' = r.last_seen_a
           /\ printed' = IF r.emit
                         THEN Append(printed, [src |-> "ws", a |-> a])
                         ELSE printed
           /\ dropped' = (dropped \/ ~r.emit)
    /\ UNCHANGED <<rpc, conns, NotStream>>

\* stream() raises (connection lost, malformed message): run() reports it
\* and sleeps.
StreamFails ==
    /\ rpc = "receiving"
    /\ rpc' = "backoff"
    /\ UNCHANGED <<last_seen_a, printed, conns, dropped, NotStream>>

\* The connection is closed normally: `async for` ends, stream() returns, and
\* the while loop calls stream() again.
StreamCloses ==
    /\ rpc = "receiving"
    /\ rpc' = "connecting"
    /\ UNCHANGED <<last_seen_a, printed, conns, dropped, NotStream>>

\* asyncio.sleep(2) is over: next iteration of the while loop.
BackoffDone ==
    /\ rpc = "backoff"
    /\ rpc' = "connecting"
    /\ UNCHANGED <<last_seen_a, printed, conns, dropped, NotStream>>

\* run() is cancelled at an await: CancelledError leaves run().
Cancel ==
    /\ rpc \in {"rest", "connecting", "receiving", "backoff"}
    /\ rpc' = "cancelled"
    /\ UNCHANGED <<last_seen_a, printed, conns, dropped, NotStream>>

StreamNext ==
    \/ \E trades \in SeqsUpTo(Ids, MaxRest) : RestResponse(trades)
    \/ RestFails
    \/ Connect
    \/ ConnectFails
    \/ \E a \in Ids : Receive(a)
    \/ StreamFails
    \/ StreamCloses
    \/ BackoffDone
    \/ Cancel

SpecStream == StreamInit /\ [][StreamNext]_vars

\* ------------------------------------------------------- claim helpers
Slots == 0..(capacity - 1)
Fields == <<keys, vals, state, prev, next, head, tail, size>>
Ok(op) == lastCall.op = op /\ lastCall.raised = NoExc
Failed(op) == lastCall.op = op /\ lastCall.raised # NoExc
\* key is live: some OCCUPIED slot holds it.
Present(key) == \E i \in Slots : state[i] = OCCUPIED /\ keys[i] = key
SlotOf(key) == CHOOSE i \in Slots : state[i] = OCCUPIED /\ keys[i] = key
TableFull == RuntimeError("Hash table is full")

\* C1: whenever the last successful mutating call on key k was insert(k, v),
\* get(k) returns v, whatever happened to the other keys in between.
C1_RoundTrip ==
    \A k \in Keys :
        absMap[k] # None =>
            /\ get(self, k).raised = NoExc
            /\ get(self, k).ret = absMap[k]

\* A successful get of a key that sits before its start index (the probe
\* wrapped around), while another key's tombstone is in the table.
C1_Witness ==
    /\ Ok("get")
    /\ Present(lastCall.key)
    /\ SlotOf(lastCall.key) < _idx(self, lastCall.key)
    /\ \E j \in Slots : state[j] = DELETED
    /\ removed # {}

\* C2: right after a successful insert(k, v), of a new key or of a present
\* one (the head included), getMostRecent() returns (k, v).
C2_InsertIsMostRecent ==
    Ok("insert") =>
        /\ get_last(self).raised = NoExc
        /\ get_last(self).ret = <<lastCall.key, lastCall.val>>

\* An update, with a new value, of a key that was not the head of a list of
\* three.
C2_Witness ==
    /\ Ok("insert")
    /\ Len(before) = 3
    /\ before[3] = lastCall.key
    /\ size = 3

\* An update of the key that already was the head.
C2_WitnessHead ==
    /\ Ok("insert")
    /\ Len(before) >= 2
    /\ before[1] = lastCall.key

\* C3: get(k), found or not, changes no field of the table, so
\* getMostRecent() and getLeastRecent() return what they returned before.
C3_GetChangesNothing ==
    [][lastCall'.op = "get" =>
          /\ UNCHANGED Fields
          /\ get_last(self)' = get_last(self)
          /\ get_first(self)' = get_first(self)]_vars

\* A successful get of a key that is not the head.
C3_Witness ==
    /\ Ok("get")
    /\ size >= 2
    /\ keys[head] # lastCall.key

\* C4: remove(k) of a live key takes exactly k out of the recency order;
\* removing the head promotes the second entry, removing the tail promotes
\* the second-to-last, removing a middle entry changes neither end.
C4_RemoveDeletesExactlyKey ==
    Ok("remove") =>
        LET n == Len(before) IN
        /\ \E j \in 1..n : before[j] = lastCall.key
        /\ RecencyKeys(self) = Without(before, lastCall.key)
        /\ (n >= 2 /\ before[1] = lastCall.key) =>
               get_last(self).ret = <<before[2], absMap[before[2]]>>
        /\ (n >= 2 /\ before[n] = lastCall.key) =>
               get_first(self).ret = <<before[n - 1], absMap[before[n - 1]]>>
        /\ (n >= 3 /\ before[1] # lastCall.key /\ before[n] # lastCall.key) =>
               /\ get_last(self).ret = <<before[1], absMap[before[1]]>>
               /\ get_first(self).ret = <<before[n], absMap[before[n]]>>

\* A middle entry of a list of three was removed.
C4_Witness ==
    /\ Ok("remove")
    /\ Len(before) = 3
    /\ before[2] = lastCall.key

\* C5: the table refines the abstract map and list: following next from head
\* lists the live keys by descending time of last insert (get is no touch),
\* and getLeastRecent() is the key with the oldest last insert, with its
\* current value.
C5_RefinesRecencyList ==
    /\ RecencyKeys(self) = absOrder
    /\ \A k \in Keys : Present(k) <=> absMap[k] # None
    /\ \A i \in Slots : state[i] = OCCUPIED => vals[i] = absMap[keys[i]]
    /\ absOrder # <<>> =>
           /\ get_first(self).raised = NoExc
           /\ get_first(self).ret =
                  <<absOrder[Len(absOrder)], absMap[absOrder[Len(absOrder)]]>>

\* The last call was a successful get of the least recent of two live
\* keys, which stays least recent; a third key was removed before, and the
\* recency order is not the slot order.
C5_Witness ==
    /\ Ok("get")
    /\ Len(absOrder) = 2
    /\ absOrder[2] = lastCall.key
    /\ removed # {}
    /\ SlotOf(absOrder[2]) < SlotOf(absOrder[1])

\* C6: insert of a key that is not present fails with TableFull exactly when
\* size = capacity (every slot OCCUPIED); insert of a present key always
\* succeeds, full table or not; and once a key was removed from a full table
\* the insert of a new key succeeds in a tombstone.
C6_TableFullIffSaturated ==
    /\ (size = capacity) <=> (\A i \in Slots : state[i] = OCCUPIED)
    /\ \A k \in Keys, v \in Vals :
           /\ (insert(self, k, v).raised = TableFull)
                  <=> (~Present(k) /\ size = capacity)
           /\ insert(self, k, v).raised \in {NoExc, TableFull}
           /\ Present(k) => insert(self, k, v).raised = NoExc
    /\ (Ok("remove") /\ Len(before) = capacity) =>
           \A k \in Keys, v \in Vals :
               ~Present(k) =>
                   /\ insert(self, k, v).raised = NoExc
                   /\ state[_probe(self, k).insert_idx] = DELETED
                   /\ insert(self, k, v).t.size = capacity

\* A third distinct key was refused by a full table of capacity 2.
C6_Witness ==
    /\ Failed("insert")
    /\ lastCall.raised = TableFull
    /\ capacity = 2
    /\ size = 2

\* A key was removed from a full table of capacity 2: the retry has a
\* tombstone to reuse.
C6_WitnessRetry ==
    /\ Ok("remove")
    /\ capacity = 2
    /\ Len(before) = 2

\* C7: a call that signals a failure (TableFull, KeyNotFound, EmptyTable)
\* leaves every field of the table as it was before the call.
C7_FailureChangesNothing ==
    [][lastCall'.raised # NoExc => UNCHANGED Fields]_vars

\* A remove of an absent key failed on a table that holds other keys and a
\* tombstone.
C7_Witness ==
    /\ Failed("remove")
    /\ size >= 1
    /\ \E j \in Slots : state[j] = DELETED

\* An insert failed with TableFull.
C7_WitnessFull ==
    /\ Failed("insert")
    /\ size = capacity

\* C8: a removed key stays absent until it is inserted again: get and a
\* second remove fail with KeyNotFound and leave the table, size included,
\* unchanged, also after its slot was reused for another key.
C8_RemovedStaysAbsent ==
    \A k \in removed :
        /\ ~Present(k)
        /\ get(self, k).raised = KeyError(k)
        /\ remove(self, k).raised = KeyError(k)
        /\ remove(self, k).t.size = size
        /\ remove(self, k).t = self

\* A second remove of a removed key failed, and no tombstone is left: the
\* slot the key had was reused by an insert of another key.
C8_Witness ==
    /\ Failed("remove")
    /\ lastCall.key \in removed
    /\ size >= 1
    /\ \A j \in Slots : state[j] # DELETED

\* C9: head is null iff tail is null iff size = 0; getMostRecent() and
\* getLeastRecent() fail with EmptyTable exactly when the table has no
\* entry, and otherwise return the key and value of an OCCUPIED slot.
C9_EmptyIffNoHead ==
    /\ (head = None) <=> (tail = None)
    /\ (head = None) <=> (size = 0)
    /\ (get_last(self).raised = KeyError("empty")) <=> (size = 0)
    /\ (get_first(self).raised = KeyError("empty")) <=> (size = 0)
    /\ size # 0 =>
           /\ get_last(self).raised = NoExc
           /\ get_first(self).raised = NoExc
           /\ state[head] = OCCUPIED
           /\ state[tail] = OCCUPIED
           /\ get_last(self).ret \in Keys \X Vals
           /\ get_first(self).ret \in Keys \X Vals

\* getMostRecent() failed on a table that was emptied by removes.
C9_Witness ==
    /\ Failed("get_last")
    /\ removed # {}
    /\ \E j \in Slots : state[j] = DELETED

\* The slots in ascending order that are OCCUPIED.
OccupiedSlots == {i \in Slots : state[i] = OCCUPIED}
NthOccupied(n) ==
    CHOOSE i \in OccupiedSlots :
        Cardinality({j \in OccupiedSlots : j < i}) = n - 1

\* C10: 0 <= size <= capacity, size is the number of OCCUPIED slots and the
\* number of pairs items() yields; items() yields the OCCUPIED slots' pairs
\* in ascending slot order, each live key once.
C10_SizeCountsItems ==
    LET its == items(self).ret IN
    /\ 0 <= size /\ size <= capacity
    /\ size = Cardinality(OccupiedSlots)
    /\ Len(its) = size
    /\ \A n \in 1..Len(its) :
           its[n] = <<keys[NthOccupied(n)], vals[NthOccupied(n)]>>
    /\ \A k \in Keys :
           Cardinality({n \in 1..Len(its) : its[n][1] = k})
               = (IF absMap[k] # None THEN 1 ELSE 0)

\* items() was called on a table with a tombstone whose slot order differs
\* from the recency order.
C10_Witness ==
    /\ Ok("items")
    /\ size >= 2
    /\ \E j \in Slots : state[j] = DELETED
    /\ [n \in 1..size |-> items(self).ret[n][1]] # RecencyKeys(self)

\* ------------------------------------------------------ the probe path
\* The slot at position p (0 .. capacity - 1) of key's probe path, and the
\* position of slot i on it.
PathSlot(key, p) == (_idx(self, key) + p) % capacity
PathPos(key, i) == ((i - _idx(self, key)) + capacity) % capacity
Positions == 0..(capacity - 1)

\* C11: the recency list is a well-formed doubly linked list over exactly
\* the OCCUPIED slots: from head, next reaches tail after exactly size nodes
\* without a cycle, visiting every OCCUPIED slot once and no other slot; prev
\* is the inverse of next; EMPTY and DELETED slots have null prev and next.
C11_RecencyListWellFormed ==
    LET s == RecencySlots(self) IN
    /\ Len(s) = size
    /\ \A m, n \in 1..Len(s) : s[m] = s[n] => m = n
    /\ {s[n] : n \in 1..Len(s)} = OccupiedSlots
    /\ (size = 0) => (head = None /\ tail = None)
    /\ (size > 0) =>
           /\ s[1] = head
           /\ s[Len(s)] = tail
           /\ prev[head] = None
           /\ next[tail] = None
    /\ \A n \in 1..(Len(s) - 1) : prev[s[n + 1]] = s[n]
    /\ \A i \in Slots :
           state[i] # OCCUPIED => (prev[i] = None /\ next[i] = None)

\* A middle node of three was unlinked by an update, which relinked it at
\* the head.
C11_Witness ==
    /\ Ok("insert")
    /\ Len(before) = 3
    /\ before[2] = lastCall.key
    /\ size = 3

\* C12: no key is stored in two OCCUPIED slots, and a slot holds a key and a
\* value iff it is OCCUPIED.
C12_OneSlotPerKey ==
    /\ \A i, j \in Slots :
           (state[i] = OCCUPIED /\ state[j] = OCCUPIED /\ keys[i] = keys[j])
               => i = j
    /\ \A i \in Slots :
           /\ (state[i] = OCCUPIED) <=> (keys[i] # NoKey)
           /\ (state[i] = OCCUPIED) <=> (vals[i] # None)
    /\ \A k \in Keys :
           Cardinality({i \in Slots : keys[i] = k})
               = (IF absMap[k] # None THEN 1 ELSE 0)

\* A present key was inserted again while a tombstone lies on its probe path
\* before its slot: the update found the slot and did not fill the tombstone.
C12_Witness ==
    /\ Ok("insert")
    /\ \E n \in 1..Len(before) : before[n] = lastCall.key
    /\ \E i \in Slots :
           /\ state[i] = DELETED
           /\ PathPos(lastCall.key, i) < PathPos(lastCall.key, SlotOf(lastCall.key))

\* C13 (as claimed): the failure of getMostRecent()/getLeastRecent() on an
\* empty table is distinguishable from the failure of get(k)/remove(k) on an
\* absent key, for every key k.
C13_FailureKindsDistinct ==
    \A k \in Keys :
        /\ (get_last(self).raised # NoExc /\ get(self, k).raised # NoExc)
               => get_last(self).raised # get(self, k).raised
        /\ (get_first(self).raised # NoExc /\ get(self, k).raised # NoExc)
               => get_first(self).raised # get(self, k).raised
        /\ (get_last(self).raised # NoExc /\ remove(self, k).raised # NoExc)
               => get_last(self).raised # remove(self, k).raised
        /\ (get_first(self).raised # NoExc /\ remove(self, k).raised # NoExc)
               => get_first(self).raised # remove(self, k).raised

\* The positions of key's path whose slot is EMPTY, and the tombstones met
\* before the first of them (all tombstones when there is none).
EmptyPositions(key) == {p \in Positions : state[PathSlot(key, p)] = EMPTY}
MinOf(S) == CHOOSE x \in S : \A y \in S : x <= y
TombstonePositions(key) ==
    {p \in Positions :
        /\ state[PathSlot(key, p)] = DELETED
        /\ \A q \in EmptyPositions(key) : p < q}
ExpectedInsertIdx(key) ==
    IF TombstonePositions(key) # {}
    THEN PathSlot(key, MinOf(TombstonePositions(key)))
    ELSE IF EmptyPositions(key) # {}
    THEN PathSlot(key, MinOf(EmptyPositions(key)))
    ELSE None

\* C16: for an absent key _probe returns the first tombstone met before the
\* first EMPTY slot of the path, else the first EMPTY slot, and null only
\* when every slot is OCCUPIED; for a present key its slot and a null
\* insertion index.  Insert of a new key writes exactly that slot.
C16_InsertIndexChoice ==
    \A k \in Keys :
        LET pr == _probe(self, k) IN
        IF Present(k)
        THEN pr = [found_idx |-> SlotOf(k), insert_idx |-> None]
        ELSE /\ pr = [found_idx |-> None, insert_idx |-> ExpectedInsertIdx(k)]
             /\ (pr.insert_idx = None) <=> (\A i \in Slots : state[i] = OCCUPIED)
             /\ pr.insert_idx # None =>
                    \A v \in Vals :
                        LET t2 == insert(self, k, v).t IN
                        /\ t2.keys = [keys EXCEPT ![pr.insert_idx] = k]
                        /\ t2.vals = [vals EXCEPT ![pr.insert_idx] = v]
                        /\ t2.state = [state EXCEPT ![pr.insert_idx] = OCCUPIED]

\* The table was emptied by removes and a new key was inserted: it took the
\* only tombstone although EMPTY slots are left.
C16_Witness ==
    /\ Ok("insert")
    /\ size = 1
    /\ before = <<>>
    /\ removed # {}
    /\ \A i \in Slots : state[i] # DELETED
    /\ \E i \in Slots : state[i] = EMPTY

\* No slot on the path of a live key, from its start index up to its slot,
\* is EMPTY.
ProbePathInv ==
    \A i \in Slots :
        state[i] = OCCUPIED =>
            \A p \in 0..PathPos(keys[i], i) :
                state[PathSlot(keys[i], p)] # EMPTY

\* C17: in every reachable state no slot on the cyclic probe path from a live
\* key's start index to its slot is EMPTY, and a slot that has left EMPTY
\* never becomes EMPTY again.
C17_ProbePathNeverEmpty ==
    /\ []ProbePathInv
    /\ [][\A i \in Slots : state[i] # EMPTY => state'[i] # EMPTY]_vars

\* A key was removed whose tombstone lies on the path of a live key before
\* that key's slot.
C17_Witness ==
    /\ Ok("remove")
    /\ \E i, j \in Slots :
           /\ state[i] = OCCUPIED
           /\ state[j] = DELETED
           /\ PathPos(keys[i], j) < PathPos(keys[i], i)

\* The invariants of the table that need no history: size counts the
\* OCCUPIED slots, the recency list is well formed, no key is in two slots,
\* a slot has a key and a value iff it is OCCUPIED.
TableInvariants ==
    /\ size = Cardinality(OccupiedSlots)
    /\ C11_RecencyListWellFormed
    /\ \A i, j \in Slots :
           (state[i] = OCCUPIED /\ state[j] = OCCUPIED /\ keys[i] = keys[j])
               => i = j
    /\ \A i \in Slots :
           /\ (state[i] = OCCUPIED) <=> (keys[i] # NoKey)
           /\ (state[i] = OCCUPIED) <=> (vals[i] # None)

\* C14: as long as the calls of the two threads are serialized (no call
\* starts while another is between its probe and its writes) the table
\* invariants hold; with an interleaving a state that violates them is
\* reachable (the witness).
C14_SerializedCallsKeepInvariants ==
    ~overlapped => TableInvariants

\* Two calls interleaved between probe and writes, both have returned, and
\* size is not the number of OCCUPIED slots.
C14_Witness ==
    /\ overlapped
    /\ \A th \in Threads : pc[th] = "idle"
    /\ size # Cardinality(OccupiedSlots)

\* Two calls interleaved, both have returned, and the recency list is
\* malformed.
C14_WitnessList ==
    /\ overlapped
    /\ \A th \in Threads : pc[th] = "idle"
    /\ ~C11_RecencyListWellFormed

\* Two calls interleaved, both have returned, and a key is in two slots.
C14_WitnessOverwritten ==
    /\ overlapped
    /\ \A th \in Threads : pc[th] = "idle"
    /\ \E i, j \in Slots :
           i # j /\ state[i] = OCCUPIED /\ state[j] = OCCUPIED /\ keys[i] = keys[j]

\* While _probe runs it has examined no slot twice, hence at most capacity
\* slots; what it returns is what the operator _probe computes.
ProbeBounded ==
    /\ ~probe_again
    /\ Cardinality(probe_seen) <= capacity
    /\ (probe_call # NoProbe /\ probe_ret # NoReturn) =>
           probe_ret = _probe(self, probe_call.key)
    /\ (probe_call # NoProbe /\ probe_ret = NoReturn /\ probe_seen # {}) =>
           probe_i # probe_start

\* C15: _probe terminates for every key in every reachable table, tables
\* without an EMPTY slot and capacity 1 included: it examines each slot at
\* most once and stops when the index is back at start; so every insert, get
\* and remove that was entered returns.
C15_ProbeTerminates ==
    /\ []ProbeBounded
    /\ (probe_call # NoProbe) ~> (probe_call = NoProbe)

\* _probe returned not found after a full cycle over a table of capacity
\* >= 2 that has no EMPTY slot.
C15_Witness ==
    /\ probe_call # NoProbe
    /\ probe_ret # NoReturn
    /\ probe_ret.found_idx = None
    /\ capacity >= 2
    /\ Cardinality(probe_seen) = capacity
    /\ \A i \in Slots : state[i] # EMPTY
    /\ probe_i = probe_start

\* The same on a full table of capacity 1.
C15_WitnessOne ==
    /\ probe_call # NoProbe
    /\ probe_ret # NoReturn
    /\ probe_ret.found_idx = None
    /\ capacity = 1
    /\ state[0] = OCCUPIED

\* The occurrences of w among the first n tokens, the position of its last
\* occurrence, the distinct tokens.
Occurrences(w, n) == Cardinality({m \in 1..n : words[m] = w})
LastAt(w, n) == MinOf({m \in 1..n : words[m] = w /\ \A q \in (m + 1)..n : words[q] # w})
Distinct(n) == {words[m] : m \in 1..n}

\* The distinct tokens among the first n, the one that occurred last first.
RECURSIVE ByLastOccurrence(_)
ByLastOccurrence(n) ==
    IF n = 0 THEN <<>>
    ELSE <<words[n]>> \o Without(ByLastOccurrence(n - 1), words[n])

\* C18: when the distinct tokens fit into the table, build_word_counts
\* returns a table where get(w) is the number of occurrences of w, size the
\* number of distinct tokens, getMostRecent() the last token with its count,
\* getLeastRecent() the token whose last occurrence is earliest; and the get
\* before each insert leaves the recency order as it was.
C18_WordCounts ==
    LET n == Len(words)
        fits == Cardinality(Distinct(n)) <= capacity
    IN
    /\ fits => wpc # "raised"
    /\ wpc = "insert" => RecencyKeys(self) = ByLastOccurrence(wi - 1)
    /\ wpc = "for" => RecencyKeys(self) = ByLastOccurrence(wi)
    /\ (fits /\ wpc = "done") =>
           /\ \A w \in Keys :
                  IF w \in Distinct(n)
                  THEN /\ get(self, w).raised = NoExc
                       /\ get(self, w).ret = Occurrences(w, n)
                  ELSE get(self, w).raised = KeyError(w)
           /\ size = Cardinality(Distinct(n))
           /\ RecencyKeys(self) = ByLastOccurrence(n)
           /\ n > 0 =>
                  /\ get_last(self).ret = <<words[n], Occurrences(words[n], n)>>
                  /\ \E w \in Distinct(n) :
                         /\ \A u \in Distinct(n) : LastAt(w, n) <= LastAt(u, n)
                         /\ get_first(self).ret = <<w, Occurrences(w, n)>>

\* build_word_counts returned for the tokens u, v, u, v with a table of
\* capacity 2: both counts are 2 and the first token is the least recent.
C18_Witness ==
    /\ wpc = "done"
    /\ Len(words) = 4
    /\ capacity = 2
    /\ words[1] = words[3]
    /\ words[2] = words[4]
    /\ words[1] # words[2]
    /\ get_first(self).ret = <<words[1], 2>>
    /\ get_last(self).ret = <<words[2], 2>>

\* build_word_counts left by RuntimeError: more distinct tokens than slots.
C18_WitnessFull ==
    /\ wpc = "raised"
    /\ Cardinality(Distinct(Len(words))) > capacity

\* Every trade printed by stream() has an id above the ids of all trades
\* printed before it.
StreamEmitsIncreasing ==
    \A n \in 1..Len(printed) :
        printed[n].src = "ws" =>
            \A m \in 1..(n - 1) : printed[m].a < printed[n].a

\* C19: across the REST bootstrap and the reconnects last_seen_a never
\* decreases, and every trade stream() emits has an id strictly above that of
\* every trade emitted before, by the bootstrap or by the stream.
C19_StreamDedup ==
    /\ []StreamEmitsIncreasing
    /\ []( /\ \A n \in 1..Len(printed) : printed[n].a <= last_seen_a
           /\ last_seen_a >= -1 )
    /\ [][last_seen_a' >= last_seen_a]_vars

\* On the second connection, after a bootstrap that printed a trade, the
\* stream printed a trade and skipped a duplicate.
C19_Witness ==
    /\ rpc = "receiving"
    /\ conns = 2
    /\ dropped
    /\ Len(printed) >= 3
    /\ printed[1].src = "rest"
    /\ printed[Len(printed)].src = "ws"

\* C20 (as claimed): the bootstrap runs once; whenever stream() ends, by an
\* exception or by the connection closing normally, run() waits the backoff
\* delay before the next connection; only cancellation ends the loop.
C20_BackoffBeforeReconnect ==
    [][ /\ rpc' = "rest" => rpc = "rest"
        /\ (rpc = "receiving" /\ rpc' # "receiving") =>
               rpc' \in {"backoff", "cancelled"}
        /\ rpc \in {"connecting", "receiving", "backoff"} =>
               rpc' \in {"connecting", "receiving", "backoff", "cancelled"}
      ]_vars

====
